---- MODULE Spec2Model ----
(***************************************************************************)
(* FormCraft: the dynamic form engine (FormFactory).                       *)
(*                                                                         *)
(* Two specifications share this module.                                   *)
(*   Spec          one mounted FormFactory: the respondent's change        *)
(*                 events, submit attempts and the schema prop being       *)
(*                 replaced by the parent route.                           *)
(*   SpecValidate  validateField as a pure function, applied to a field    *)
(*                 and a value drawn from bounded universes.               *)
(*                                                                         *)
(* JavaScript values are tagged records of one shape, so that any two can  *)
(* be compared: t is the typeof/shape tag, s the characters of a string or *)
(* the elements of an array, n the number, b the boolean.  A string is the *)
(* sequence of its characters.  The progress ratio is kept exact as a      *)
(* count over a length; floating point rounding of the division is not     *)
(* modelled.                                                               *)
(***************************************************************************)
EXTENDS Integers, Sequences, FiniteSets, Bags, TLC

(***************************************************************************)
(* Bounds of the model.                                                    *)
(***************************************************************************)
\* longest string given to validateField, and largest length bound declared
MaxLen == 2
\* numbers given to validateField and typed into a number control: -MaxNum..MaxNum
MaxNum == 2
\* declared numeric bounds min/max: -MaxBound..MaxBound
MaxBound == 1
\* longest string a text-like control emits in one change event
MaxTyped == 1
\* most session create-or-update requests issued before the model stops the re-runs
MaxUpserts == 3
\* most requests of one kind outstanding at a time
MaxInFlight == 2

(***************************************************************************)
(* JavaScript values.                                                      *)
(***************************************************************************)
Undefined == [t |-> "undefined", s |-> <<>>, n |-> 0, b |-> FALSE]

Str(chars) == [t |-> "string", s |-> chars, n |-> 0, b |-> FALSE]

Num(i) == [t |-> "number", s |-> <<>>, n |-> i, b |-> FALSE]

Bool(x) == [t |-> "boolean", s |-> <<>>, n |-> 0, b |-> x]

\* an array of strings (the multiselect value); typeof is "object"
Arr(items) == [t |-> "array", s |-> items, n |-> 0, b |-> FALSE]

\* the change event object itself (what `e.target?.value || e` falls back to)
EventObject == [t |-> "object", s |-> <<>>, n |-> 0, b |-> FALSE]

\* ToBoolean: undefined, "", 0 and false are falsy; arrays and objects are truthy
Truthy(v) ==
    CASE v.t = "undefined" -> FALSE
      [] v.t = "string"    -> v.s # <<>>
      [] v.t = "number"    -> v.n # 0
      [] v.t = "boolean"   -> v.b
      [] OTHER             -> TRUE

Whitespace == {" "}

Digits == {"0", "1", "2", "3", "4", "5", "6", "7", "8", "9"}

RECURSIVE trimStart(_)
trimStart(chars) ==
    IF chars = <<>> THEN chars
    ELSE IF Head(chars) \in Whitespace THEN trimStart(Tail(chars))
    ELSE chars

RECURSIVE trimEnd(_)
trimEnd(chars) ==
    IF chars = <<>> THEN chars
    ELSE IF chars[Len(chars)] \in Whitespace
         THEN trimEnd(SubSeq(chars, 1, Len(chars) - 1))
    ELSE chars

\* String.prototype.trim
trim(chars) == trimEnd(trimStart(chars))

\* new RegExp(pattern).test(value) for the patterns of the model's schemas
RegExpTest(pattern, chars) ==
    CASE pattern = ""          -> TRUE
      [] pattern = "^\\d{2}$"  -> Len(chars) = 2 /\ \A i \in 1..Len(chars) : chars[i] \in Digits
      [] pattern = "^a"        -> chars # <<>> /\ Head(chars) = "a"
      [] OTHER                 -> FALSE

(***************************************************************************)
(* FormField.  A constraint of `validation` that is not declared has its   *)
(* d-flag FALSE; `present` is FALSE when the field has no validation       *)
(* object at all.                                                          *)
(***************************************************************************)
NoValidation ==
    [present |-> FALSE,
     dmin |-> FALSE, min |-> 0, dmax |-> FALSE, max |-> 0,
     dminLength |-> FALSE, minLength |-> 0, dmaxLength |-> FALSE, maxLength |-> 0,
     dpattern |-> FALSE, pattern |-> ""]

FormField(key, type, label, required, validation, options) ==
    [key |-> key, type |-> type, label |-> label, required |-> required,
     validation |-> validation, options |-> options]

(***************************************************************************)
(* Validation messages: the label, the rule that produced the message and  *)
(* the threshold it embeds.  null is validateField's "no error".           *)
(***************************************************************************)
null == [label |-> "", rule |-> "null", n |-> 0]

\* the empty string handleFieldChange writes over a cleared error
EmptyMessage == [label |-> "", rule |-> "", n |-> 0]

Message(label, rule, n) == [label |-> label, rule |-> rule, n |-> n]

\* validateField with the required check applied to optional fields too
validateField_requiredUnguarded(field, value) ==
    IF ~Truthy(value) \/ (value.t = "string" /\ trim(value.s) = <<>>)
    THEN Message(field.label, "required", 0)
    ELSE null

validateField(field, value) ==
    LET validation == field.validation IN
    IF field.required
       /\ (~Truthy(value) \/ (value.t = "string" /\ trim(value.s) = <<>>))
    THEN Message(field.label, "required", 0)
    ELSE IF ~Truthy(value) /\ ~field.required THEN null
    ELSE IF ~validation.present THEN null
    ELSE IF validation.dminLength /\ validation.minLength # 0
            /\ value.t = "string" /\ Len(value.s) < validation.minLength
    THEN Message(field.label, "minLength", validation.minLength)
    ELSE IF validation.dmaxLength /\ validation.maxLength # 0
            /\ value.t = "string" /\ Len(value.s) > validation.maxLength
    THEN Message(field.label, "maxLength", validation.maxLength)
    ELSE IF validation.dmin /\ validation.min # 0
            /\ value.t = "number" /\ value.n < validation.min
    THEN Message(field.label, "min", validation.min)
    ELSE IF validation.dmax /\ validation.max # 0
            /\ value.t = "number" /\ value.n > validation.max
    THEN Message(field.label, "max", validation.max)
    ELSE IF validation.dpattern /\ validation.pattern # ""
            /\ value.t = "string" /\ ~RegExpTest(validation.pattern, value.s)
    THEN Message(field.label, "pattern", 0)
    ELSE null

(***************************************************************************)
(* State.                                                                  *)
(***************************************************************************)
VARIABLES
    schema,         \* props.schema.fields: the sequence of FormField
    formData,       \* useState formData: key -> value, for the keys present
    errors,         \* useState errors: key -> message, for the keys present
    lastEvent,      \* the event whose handler ran last, with what it carried
    onSubmitCalls,  \* the arguments of the calls that handler made to props.onSubmit
    vField,         \* SpecValidate: the field given to validateField
    vValue,         \* SpecValidate: the value given to validateField
    vResult         \* SpecValidate: what validateField returned

\* the session liveness tracker (the tracking effect of FormFactory)
VARIABLES
    mounted,          \* FormFactory is mounted
    responseId,       \* props.responseId: "null" or the response's identifier
    sessionId,        \* useState sessionId: "null" or a session identifier
    intervals,        \* number of armed heartbeat intervals
    timers,           \* inactivity timeouts: how many are pending, whether
                      \* inactivityTimeoutRef.current is set and still pending
    upsertInFlight,   \* session create-or-update requests not yet resolved
    livenessInFlight, \* heartbeat writes not yet resolved
    abandonInFlight,  \* abandoned-mark writes not yet resolved
    upsertsIssued,    \* session create-or-update requests issued so far
    tstep             \* the step taken last and the write it issued

\* the two routes that render FormFactory: Home (preview) and FormResponse
VARIABLES
    route,          \* "home" or "respond": the route component that is rendered
    desc,           \* Home: useState desc
    loading,        \* useState loading of the route (Home: generating; FormResponse: fetching)
    saving,         \* Home: useState saving
    submitting,     \* FormResponse: useState submitting
    formId,         \* Home: useState formId, "null" or the saved form's identifier
    formTitle,      \* useState formTitle of the route
    fetchInFlight,  \* FormResponse: fetchForm calls not yet resolved
    draftInFlight,  \* FormResponse: createDraftResponse calls not yet resolved
    genInFlight,    \* Home: generateSchema calls not yet resolved
    saveInFlight,   \* Home: onSaveForm calls not yet resolved
    awaitingFirst,  \* submissions awaiting their first persistence request
    awaitingSecond, \* submissions awaiting the insert of the response items
    rstep           \* the route step taken last, its request results and its toasts

\* what the routes' submissions ask the backend to persist
VARIABLES
    responseStatus, \* FormResponse: status of the response row: "none", "draft", "submitted"
    pendingFirst,   \* the submissions awaiting their first request: the AnswerMap
                    \* each callback was given and the identifier in its closure
    itemsInsert     \* the insert of response items the last step issued: the response
                    \* record of its submission and the rows it carries

engineVars == <<schema, formData, errors, lastEvent, onSubmitCalls>>

validateVars == <<vField, vValue, vResult>>

trackerStateVars ==
    <<mounted, responseId, sessionId, intervals, timers,
      upsertInFlight, livenessInFlight, abandonInFlight, upsertsIssued>>

trackerVars == <<trackerStateVars, tstep>>

routeStateVars ==
    <<route, desc, loading, saving, submitting, formId, formTitle,
      fetchInFlight, draftInFlight, genInFlight, saveInFlight,
      awaitingFirst, awaitingSecond>>

routeVars == <<routeStateVars, rstep>>

persistVars == <<responseStatus, pendingFirst, itemsInsert>>

vars == <<engineVars, validateVars, trackerVars, routeVars, persistVars>>

\* a JavaScript object with no own keys
EmptyObject == [k \in {} |-> Undefined]

\* obj[key]: undefined for a key the object does not have
Get(obj, key) == IF key \in DOMAIN obj THEN obj[key] ELSE Undefined

\* errors[key], with a missing key read as the (falsy) empty message
GetError(errs, key) == IF key \in DOMAIN errs THEN errs[key] ELSE EmptyMessage

\* { ...obj, [key]: value }
Spread(obj, key, value) ==
    [k \in DOMAIN obj \cup {key} |-> IF k = key THEN value ELSE obj[k]]

(***************************************************************************)
(* The tracker's timers.  clearTimeout(inactivityTimeoutRef.current)       *)
(* cancels the timeout the ref names if it is still pending; setTimeout    *)
(* adds a pending timeout and the ref then names it.                       *)
(***************************************************************************)
NoTimers == [pending |-> 0, refSet |-> FALSE, refPending |-> FALSE]

\* if (inactivityTimeoutRef.current) clearTimeout(inactivityTimeoutRef.current)
clearRef(tm) ==
    IF tm.refSet /\ tm.refPending
    THEN [tm EXCEPT !.pending = @ - 1, !.refPending = FALSE]
    ELSE tm

trackInactivity(tm) ==
    [pending |-> clearRef(tm).pending + 1, refSet |-> TRUE, refPending |-> TRUE]

TrackerStep(op, write) == [op |-> op, write |-> write]

\* the state of a FormFactory whose tracking effect returned early (no ids)
TrackerIdle ==
    /\ mounted = TRUE
    /\ responseId = "null"
    /\ sessionId = "null"
    /\ intervals = 0
    /\ timers = NoTimers
    /\ upsertInFlight = 0
    /\ livenessInFlight = 0
    /\ abandonInFlight = 0
    /\ upsertsIssued = 0
    /\ tstep = TrackerStep("mount", "none")

\* a route step: the results of the two persistence requests it has seen
\* ("none" when not reached) and the toasts it showed
RouteStep(op, first, second, success, error) ==
    [op |-> op, first |-> first, second |-> second,
     success |-> success, error |-> error]

Quiet(op) == RouteStep(op, "none", "none", 0, 0)

\* Home as constructed, nothing requested
RouteIdle ==
    /\ route = "home"
    /\ desc = ""
    /\ loading = FALSE
    /\ saving = FALSE
    /\ submitting = FALSE
    /\ formId = "null"
    /\ formTitle = ""
    /\ fetchInFlight = 0
    /\ draftInFlight = 0
    /\ genInFlight = 0
    /\ saveInFlight = 0
    /\ awaitingFirst = 0
    /\ awaitingSecond = 0
    /\ rstep = Quiet("construct")

\* no insert of response items issued
NoInsert == [record |-> "null", items |-> {}]

\* nothing persisted, nothing requested
PersistIdle ==
    /\ responseStatus = "none"
    /\ pendingFirst = EmptyBag
    /\ itemsInsert = NoInsert

(***************************************************************************)
(* SpecValidate: validateField on bounded inputs.                          *)
(***************************************************************************)
Chars == {"a", "1", " "}

StringsUpTo(n) == UNION {[1..m -> Chars] : m \in 0..n}

Patterns == {"^\\d{2}$", "^a"}

OptionValues == {"a", "b"}

\* arrays of distinct option values, in any order
OptionArrays ==
    {q \in UNION {[1..m -> OptionValues] : m \in 0..Cardinality(OptionValues)} :
        \A i, j \in 1..Len(q) : i # j => q[i] # q[j]}

Values ==
    {Undefined, EventObject}
    \cup {Str(c) : c \in StringsUpTo(MaxLen)}
    \cup {Num(i) : i \in -MaxNum..MaxNum}
    \cup {Bool(x) : x \in BOOLEAN}
    \cup {Arr(q) : q \in OptionArrays}

Validations ==
    {NoValidation}
    \cup {v \in [present : {TRUE},
                 dmin : BOOLEAN, min : -MaxBound..MaxBound,
                 dmax : BOOLEAN, max : -MaxBound..MaxBound,
                 dminLength : BOOLEAN, minLength : 0..MaxLen,
                 dmaxLength : BOOLEAN, maxLength : 0..MaxLen,
                 dpattern : BOOLEAN, pattern : Patterns \cup {""}] :
            /\ (~v.dmin => v.min = 0)
            /\ (~v.dmax => v.max = 0)
            /\ (~v.dminLength => v.minLength = 0)
            /\ (~v.dmaxLength => v.maxLength = 0)
            /\ (v.dpattern <=> v.pattern # "")}

Fields ==
    {FormField("f", "text", "F", r, v, <<>>) : r \in BOOLEAN, v \in Validations}

Pending == [label |-> "", rule |-> "pending", n |-> 0]

InitValidate ==
    /\ vField \in Fields
    /\ vValue \in Values
    /\ vResult = Pending
    /\ schema = <<>>
    /\ formData = EmptyObject
    /\ errors = EmptyObject
    /\ lastEvent = [op |-> "mount", key |-> "", value |-> Undefined]
    /\ onSubmitCalls = <<>>
    /\ TrackerIdle
    /\ RouteIdle
    /\ PersistIdle

Validate ==
    /\ vResult = Pending
    /\ vResult' = validateField(vField, vValue)
    /\ UNCHANGED <<vField, vValue>>
    /\ UNCHANGED engineVars

NextValidate == Validate /\ UNCHANGED <<trackerVars, routeVars, persistVars>>

SpecValidate == InitValidate /\ [][NextValidate]_vars

(***************************************************************************)
(* Spec: one mounted FormFactory.                                          *)
(***************************************************************************)
\* the controls that take baseProps, whose onChange receives a DOM change event
TextLikeTypes == {"text", "email", "tel", "date", "textarea"}

InputTypes == TextLikeTypes \cup {"number"}

ChoiceTypes == {"select", "radio"}

fName ==
    FormField("name", "text", "Name", TRUE,
              [NoValidation EXCEPT !.present = TRUE, !.dpattern = TRUE, !.pattern = "^a"],
              <<>>)

fAge ==
    FormField("age", "number", "Age", FALSE,
              [NoValidation EXCEPT !.present = TRUE, !.dmin = TRUE, !.min = 1],
              <<>>)

fAgree == FormField("agree", "checkbox", "Agree", TRUE, NoValidation, <<>>)

fColor == FormField("color", "select", "Color", TRUE, NoValidation, <<"a", "b">>)

fTags == FormField("tags", "multiselect", "Tags", FALSE, NoValidation, <<"a", "b">>)

\* the schemas a parent route hands to the engine (schema.fields)
Schemas == {<<>>, <<fName, fAge, fAgree>>, <<fColor, fTags>>}

SchemaFields == {schema[i] : i \in 1..Len(schema)}

DigitChar(d) ==
    CASE d = 0 -> "0" [] d = 1 -> "1" [] d = 2 -> "2" [] d = 3 -> "3" [] d = 4 -> "4"
      [] d = 5 -> "5" [] d = 6 -> "6" [] d = 7 -> "7" [] d = 8 -> "8" [] d = 9 -> "9"

RECURSIVE NatStr(_)
NatStr(i) ==
    IF i < 10 THEN <<DigitChar(i)>> ELSE NatStr(i \div 10) \o <<DigitChar(i % 10)>>

\* the value attribute of an <input type="number"> holding the number i: a string
NumStr(i) == IF i < 0 THEN <<"-">> \o NatStr(-i) ELSE NatStr(i)

\* e.target.value of the change events a control can emit
TargetValues(field) ==
    IF field.type = "number"
    THEN {<<>>} \cup {NumStr(i) : i \in -MaxNum..MaxNum}
    ELSE StringsUpTo(MaxTyped)

\* baseProps.onChange: the value handed on is `e.target?.value || e`
onChangeValue(targetValue) ==
    IF Truthy(Str(targetValue)) THEN Str(targetValue) ELSE EventObject

\* renderField: `formData[field.key] || ''`
renderValue(field) ==
    IF Truthy(Get(formData, field.key)) THEN Get(formData, field.key) ELSE Str(<<>>)

\* Array.isArray(value) ? value : []
selectedValues(field) ==
    IF renderValue(field).t = "array" THEN renderValue(field).s ELSE <<>>

includes(items, x) == \E i \in 1..Len(items) : items[i] = x

RECURSIVE filterOut(_, _)
\* items.filter(v => v !== x)
filterOut(items, x) ==
    IF items = <<>> THEN <<>>
    ELSE IF Head(items) = x THEN filterOut(Tail(items), x)
    ELSE <<Head(items)>> \o filterOut(Tail(items), x)

\* handleFieldChange that stores the value and leaves the error in place
handleFieldChange_keepsError(key, value) ==
    /\ formData' = Spread(formData, key, value)
    /\ errors' = errors

handleFieldChange(key, value) ==
    /\ formData' = Spread(formData, key, value)
    /\ errors' = IF GetError(errors, key) # EmptyMessage
                 THEN Spread(errors, key, EmptyMessage)
                 ELSE errors

ChangeEvent(key, carried) == [op |-> "change", key |-> key, value |-> carried]

\* an Input or Textarea emits a change event carrying the string targetValue
InputChange(field, targetValue) ==
    /\ field.type \in InputTypes
    /\ handleFieldChange(field.key, onChangeValue(targetValue))
    /\ lastEvent' = ChangeEvent(field.key, Str(targetValue))
    /\ onSubmitCalls' = <<>>
    /\ UNCHANGED schema
    /\ UNCHANGED validateVars

\* a Select or RadioGroup reports the chosen option value
ChoiceChange(field, option) ==
    /\ field.type \in ChoiceTypes
    /\ handleFieldChange(field.key, Str(<<option>>))
    /\ lastEvent' = ChangeEvent(field.key, Str(<<option>>))
    /\ onSubmitCalls' = <<>>
    /\ UNCHANGED schema
    /\ UNCHANGED validateVars

\* a multiselect checkbox handler that appends whatever state the box reports
MultiselectToggle_alwaysAppends(field, option) ==
    /\ field.type = "multiselect"
    /\ handleFieldChange(field.key, Arr(Append(selectedValues(field), option)))
    /\ lastEvent' = ChangeEvent(field.key, Bool(~includes(selectedValues(field), option)))
    /\ onSubmitCalls' = <<>>
    /\ UNCHANGED schema
    /\ UNCHANGED validateVars

\* one checkbox of a multiselect is clicked: it reports the opposite of `checked`
MultiselectToggle(field, option) ==
    /\ field.type = "multiselect"
    /\ LET checked == ~includes(selectedValues(field), option) IN
        /\ IF checked
           THEN handleFieldChange(field.key, Arr(Append(selectedValues(field), option)))
           ELSE handleFieldChange(field.key, Arr(filterOut(selectedValues(field), option)))
        /\ lastEvent' = ChangeEvent(field.key, Bool(checked))
    /\ onSubmitCalls' = <<>>
    /\ UNCHANGED schema
    /\ UNCHANGED validateVars

\* the single checkbox is clicked: it reports the opposite of `!!value`
CheckboxToggle(field) ==
    /\ field.type = "checkbox"
    /\ LET checked == ~Truthy(renderValue(field)) IN
        /\ handleFieldChange(field.key, Bool(checked))
        /\ lastEvent' = ChangeEvent(field.key, Bool(checked))
    /\ onSubmitCalls' = <<>>
    /\ UNCHANGED schema
    /\ UNCHANGED validateVars

RECURSIVE validateAll(_, _)
\* the forEach of handleSubmit over fields, from [newErrors, hasErrors] = acc
validateAll(fields, acc) ==
    IF fields = <<>> THEN acc
    ELSE LET field == Head(fields)
             error == validateField(field, Get(formData, field.key))
         IN IF error # null /\ error # EmptyMessage
            THEN validateAll(Tail(fields),
                             [newErrors |-> Spread(acc.newErrors, field.key, error),
                              hasErrors |-> TRUE])
            ELSE validateAll(Tail(fields), acc)

\* handleSubmit that hands the answers on without looking at hasErrors
handleSubmit_callsAlways ==
    LET result == validateAll(schema, [newErrors |-> EmptyObject, hasErrors |-> FALSE]) IN
    /\ errors' = result.newErrors
    /\ onSubmitCalls' = <<formData>>
    /\ lastEvent' = [op |-> "submit", key |-> "", value |-> Undefined]
    /\ UNCHANGED <<schema, formData>>
    /\ UNCHANGED validateVars

\* handleSubmit that merges the new errors into the previous ErrorMap
handleSubmit_mergesErrors ==
    LET result == validateAll(schema, [newErrors |-> EmptyObject, hasErrors |-> FALSE]) IN
    /\ errors' = [k \in DOMAIN errors \cup DOMAIN result.newErrors |->
                     IF k \in DOMAIN result.newErrors THEN result.newErrors[k] ELSE errors[k]]
    /\ onSubmitCalls' = IF ~result.hasErrors THEN <<formData>> ELSE <<>>
    /\ lastEvent' = [op |-> "submit", key |-> "", value |-> Undefined]
    /\ UNCHANGED <<schema, formData>>
    /\ UNCHANGED validateVars

handleSubmit ==
    LET result == validateAll(schema, [newErrors |-> EmptyObject, hasErrors |-> FALSE]) IN
    /\ errors' = result.newErrors
    /\ onSubmitCalls' = IF ~result.hasErrors THEN <<formData>> ELSE <<>>
    /\ lastEvent' = [op |-> "submit", key |-> "", value |-> Undefined]
    /\ UNCHANGED <<schema, formData>>
    /\ UNCHANGED validateVars

\* the parent re-renders FormFactory with another schema (Home.onGenerate) or a
\* copy of the same one (FormResponse.handleSubmit); the engine's state is kept
SetSchema(fields) ==
    /\ schema' = fields
    /\ lastEvent' = [op |-> "schema", key |-> "", value |-> Undefined]
    /\ onSubmitCalls' = <<>>
    /\ UNCHANGED <<formData, errors>>
    /\ UNCHANGED validateVars

\* Object.keys(formData).filter(...): the keys that count as answered
answeredKeys ==
    {k \in DOMAIN formData : formData[k] # Str(<<>>) /\ formData[k] # Undefined}

\* the ratio (answered / fields.length) * 100 as num/den, 0 for no fields
progress ==
    IF Len(schema) > 0
    THEN [num |-> Cardinality(answeredKeys) * 100, den |-> Len(schema)]
    ELSE [num |-> 0, den |-> 1]

Init ==
    /\ schema \in Schemas
    /\ formData = EmptyObject
    /\ errors = EmptyObject
    /\ lastEvent = [op |-> "mount", key |-> "", value |-> Undefined]
    /\ onSubmitCalls = <<>>
    /\ vField = FormField("f", "text", "F", FALSE, NoValidation, <<>>)
    /\ vValue = Undefined
    /\ vResult = Pending
    /\ TrackerIdle
    /\ RouteIdle
    /\ PersistIdle

Next ==
    \/ /\ \E field \in SchemaFields : \E targetValue \in TargetValues(field) :
              InputChange(field, targetValue)
       /\ UNCHANGED <<trackerVars, routeVars, persistVars>>
    \/ /\ \E field \in SchemaFields : \E i \in 1..Len(field.options) :
              ChoiceChange(field, field.options[i])
       /\ UNCHANGED <<trackerVars, routeVars, persistVars>>
    \/ /\ \E field \in SchemaFields : \E i \in 1..Len(field.options) :
              MultiselectToggle(field, field.options[i])
       /\ UNCHANGED <<trackerVars, routeVars, persistVars>>
    \/ /\ \E field \in SchemaFields : CheckboxToggle(field)
       /\ UNCHANGED <<trackerVars, routeVars, persistVars>>
    \/ /\ handleSubmit
       /\ UNCHANGED <<trackerVars, routeVars, persistVars>>
    \/ /\ \E fields \in Schemas : SetSchema(fields)
       /\ UNCHANGED <<trackerVars, routeVars, persistVars>>

Spec == Init /\ [][Next]_vars

(***************************************************************************)
(* SpecTracker: the tracking effect of a FormFactory mounted with a form   *)
(* identifier and a response identifier.  A request is in flight from the  *)
(* step that issues it to the step in which its await resumes.  A state    *)
(* change of sessionId re-renders, and the effect (it lists sessionId in   *)
(* its dependencies) is torn down and run again in the same step.          *)
(***************************************************************************)
SessionIds == {"s1", "s2"}

\* everything the tracker's steps leave alone
outsideTracker == <<engineVars, validateVars, routeVars, persistVars>>

\* the state right after the effect ran for the first time
InitTrackerState ==
    /\ mounted = TRUE
    /\ responseId = "r1"
    /\ sessionId = "null"
    /\ intervals = 1
    /\ timers = trackInactivity(NoTimers)
    /\ upsertInFlight = 1
    /\ livenessInFlight = 0
    /\ abandonInFlight = 0
    /\ upsertsIssued = 1
    /\ tstep = TrackerStep("mount", "upsert")

\* trackSession resumes with an error, or with the session row whose id it stores
TrackSessionResolves(result) ==
    /\ upsertInFlight > 0
    /\ IF result = "error" \/ ~mounted \/ result = sessionId
       THEN /\ upsertInFlight' = upsertInFlight - 1
            /\ tstep' = TrackerStep("sessionResolved", "none")
            /\ UNCHANGED <<mounted, responseId, sessionId, intervals, timers,
                           livenessInFlight, abandonInFlight, upsertsIssued>>
       ELSE /\ upsertsIssued < MaxUpserts
            /\ sessionId' = result
            \* cleanup of the previous run, then the effect body again
            /\ upsertInFlight' = (upsertInFlight - 1) + 1
            /\ upsertsIssued' = upsertsIssued + 1
            /\ intervals' = (intervals - 1) + 1
            /\ timers' = trackInactivity(clearRef(timers))
            /\ tstep' = TrackerStep("sessionStored", "upsert")
            /\ UNCHANGED <<mounted, responseId, livenessInFlight, abandonInFlight>>
    /\ UNCHANGED outsideTracker

\* the 30 second interval fires: updateActivity up to its await
HeartbeatFires ==
    /\ intervals > 0
    /\ IF sessionId = "null"
       THEN /\ tstep' = TrackerStep("heartbeat", "none")
            /\ UNCHANGED livenessInFlight
       ELSE /\ livenessInFlight < MaxInFlight
            /\ livenessInFlight' = livenessInFlight + 1
            /\ tstep' = TrackerStep("heartbeat", "liveness")
    /\ UNCHANGED <<mounted, responseId, sessionId, intervals, timers,
                   upsertInFlight, abandonInFlight, upsertsIssued>>
    /\ UNCHANGED outsideTracker

\* updateActivity resumes after its write (failed or not) and calls trackInactivity
LivenessResolves ==
    /\ livenessInFlight > 0
    /\ livenessInFlight' = livenessInFlight - 1
    /\ timers' = trackInactivity(timers)
    /\ tstep' = TrackerStep("livenessResolved", "none")
    /\ UNCHANGED <<mounted, responseId, sessionId, intervals,
                   upsertInFlight, abandonInFlight, upsertsIssued>>
    /\ UNCHANGED outsideTracker

\* a timeout callback that arms the timeout again when it runs
TimeoutFires_rearms(viaRef) ==
    /\ timers.pending > 0
    /\ viaRef = timers.refPending
    /\ abandonInFlight < MaxInFlight
    /\ abandonInFlight' = abandonInFlight + 1
    /\ tstep' = TrackerStep("timeout", "abandoned")
    /\ UNCHANGED <<mounted, responseId, sessionId, intervals, timers,
                   upsertInFlight, livenessInFlight, upsertsIssued>>
    /\ UNCHANGED outsideTracker

\* a pending inactivity timeout expires: markAbandoned up to its await.
\* viaRef: the timeout is the one inactivityTimeoutRef.current names
TimeoutFires(viaRef) ==
    /\ timers.pending > 0
    /\ IF viaRef
       THEN timers.refPending
       ELSE timers.pending > (IF timers.refPending THEN 1 ELSE 0)
    /\ timers' = [timers EXCEPT !.pending = @ - 1,
                                !.refPending = IF viaRef THEN FALSE ELSE @]
    /\ IF responseId = "null"
       THEN /\ tstep' = TrackerStep("timeout", "none")
            /\ UNCHANGED abandonInFlight
       ELSE /\ abandonInFlight < MaxInFlight
            /\ abandonInFlight' = abandonInFlight + 1
            /\ tstep' = TrackerStep("timeout", "abandoned")
    /\ UNCHANGED <<mounted, responseId, sessionId, intervals,
                   upsertInFlight, livenessInFlight, upsertsIssued>>
    /\ UNCHANGED outsideTracker

\* a completion of the abandoned-mark write that resets the engine's maps
AbandonResolves_clearsAnswers ==
    /\ abandonInFlight > 0
    /\ abandonInFlight' = abandonInFlight - 1
    /\ tstep' = TrackerStep("abandonResolved", "none")
    /\ formData' = EmptyObject
    /\ errors' = EmptyObject
    /\ UNCHANGED <<mounted, responseId, sessionId, intervals, timers,
                   upsertInFlight, livenessInFlight, upsertsIssued>>
    /\ UNCHANGED <<schema, lastEvent, onSubmitCalls, validateVars, routeVars, persistVars>>

\* markAbandoned resumes after its write (failed or not)
AbandonResolves ==
    /\ abandonInFlight > 0
    /\ abandonInFlight' = abandonInFlight - 1
    /\ tstep' = TrackerStep("abandonResolved", "none")
    /\ UNCHANGED <<mounted, responseId, sessionId, intervals, timers,
                   upsertInFlight, livenessInFlight, upsertsIssued>>
    /\ UNCHANGED outsideTracker

\* FormFactory unmounts: the effect's cleanup runs
Unmount ==
    /\ mounted
    /\ mounted' = FALSE
    /\ intervals' = IF intervals > 0 THEN intervals - 1 ELSE 0
    /\ timers' = clearRef(timers)
    /\ tstep' = TrackerStep("unmount", "none")
    /\ UNCHANGED <<responseId, sessionId,
                   upsertInFlight, livenessInFlight, abandonInFlight, upsertsIssued>>
    /\ UNCHANGED outsideTracker

\* an event of the respondent handled by the engine while the tracker runs
EngineEvent(handled) ==
    /\ mounted
    /\ handled
    /\ tstep' = TrackerStep("engine", "none")
    /\ UNCHANGED <<trackerStateVars, routeVars, persistVars>>

InitTracker ==
    /\ schema = <<fAgree, fColor>>
    /\ formData = EmptyObject
    /\ errors = EmptyObject
    /\ lastEvent = [op |-> "mount", key |-> "", value |-> Undefined]
    /\ onSubmitCalls = <<>>
    /\ vField = FormField("f", "text", "F", FALSE, NoValidation, <<>>)
    /\ vValue = Undefined
    /\ vResult = Pending
    /\ InitTrackerState
    /\ RouteIdle
    /\ PersistIdle

NextTracker ==
    \/ \E result \in {"error"} \cup SessionIds : TrackSessionResolves(result)
    \/ HeartbeatFires
    \/ LivenessResolves
    \/ \E viaRef \in BOOLEAN : TimeoutFires(viaRef)
    \/ AbandonResolves
    \/ Unmount
    \/ EngineEvent(\E field \in SchemaFields : CheckboxToggle(field))
    \/ EngineEvent(\E field \in SchemaFields : \E i \in 1..Len(field.options) :
                       ChoiceChange(field, field.options[i]))
    \/ EngineEvent(handleSubmit)

SpecTracker == InitTracker /\ [][NextTracker]_vars

(***************************************************************************)
(* SpecRoutes: the two routes around FormFactory.  Home generates a schema *)
(* from a description, previews it and saves it; FormResponse fetches a    *)
(* form, creates a draft response and persists the submission.  The        *)
(* tracking effect is started where FormFactory gets both identifiers; its *)
(* later steps are those of SpecTracker and touch no variable of a route.  *)
(***************************************************************************)
RouteSchemas == {<<fAgree>>, <<fColor>>}

Titles == {"t1", "t2"}

Descriptions == {"", "d"}

\* the loading prop the route passes to FormFactory: it disables the submit Button
loadingProp == IF route = "respond" THEN submitting ELSE saving

InFlightSubmissions == awaitingFirst + awaitingSecond

\* a step of a route that issues no insert of response items
noInsert ==
    /\ itemsInsert' = NoInsert
    /\ UNCHANGED <<responseStatus, pendingFirst>>

\* a call of the route's submit callback: its argument and the identifier
\* its closure holds (FormResponse: responseId; Home: formId)
Submission(data, id) == [data |-> data, id |-> id]

\* the identifier of the row Home's insert into responses creates
InsertedResponse == "r2"

\* Object.entries(formData).map(...): one row per key, keyed by the identifier
responseItems(data, id) ==
    {[response_id |-> id, field_key |-> k, value_json |-> data[k], valid |-> TRUE] :
        k \in DOMAIN data}

\* the first request of one of the pending submissions resolves; when it
\* succeeded the callback issues the insert of that submission's items
firstRequestDone(ok) ==
    \E s \in BagToSet(pendingFirst) :
        /\ pendingFirst' = pendingFirst (-) SetToBag({s})
        /\ IF ok
           THEN /\ itemsInsert' =
                      [record |-> IF route = "respond" THEN s.id ELSE InsertedResponse,
                       items |-> responseItems(s.data, s.id)]
                /\ responseStatus' =
                      IF route = "respond" THEN "submitted" ELSE responseStatus
           ELSE /\ itemsInsert' = NoInsert
                /\ UNCHANGED responseStatus

\* FormFactory is (un)mounted with responseId r; the tracking effect runs
\* when it first has a form identifier and a response identifier
renders(m, r) ==
    /\ mounted' = m
    /\ responseId' = r
    /\ IF m /\ r # "null" /\ route = "respond" /\ ~(mounted /\ responseId # "null")
       THEN /\ intervals' = intervals + 1
            /\ timers' = trackInactivity(timers)
            /\ upsertInFlight' = upsertInFlight + 1
            /\ upsertsIssued' = upsertsIssued + 1
            /\ tstep' = TrackerStep("mount", "upsert")
            /\ UNCHANGED <<sessionId, livenessInFlight, abandonInFlight>>
       ELSE UNCHANGED <<sessionId, intervals, timers, upsertInFlight,
                        livenessInFlight, abandonInFlight, upsertsIssued, tstep>>

\* Home: the description textarea changes
SetDesc(d) ==
    /\ route = "home"
    /\ desc' = d
    /\ rstep' = Quiet("setDesc")
    /\ UNCHANGED <<route, loading, saving, submitting, formId, formTitle,
                   fetchInFlight, draftInFlight, genInFlight, saveInFlight,
                   awaitingFirst, awaitingSecond>>
    /\ UNCHANGED <<engineVars, validateVars, trackerVars>>
    /\ noInsert

\* Home.onGenerate up to its await; the Button is disabled by loading || !desc
GenerateStart ==
    /\ route = "home"
    /\ ~loading
    /\ desc # ""
    /\ loading' = TRUE
    /\ genInFlight' = genInFlight + 1
    /\ rstep' = Quiet("generateStart")
    /\ UNCHANGED <<route, desc, saving, submitting, formId, formTitle,
                   fetchInFlight, draftInFlight, saveInFlight,
                   awaitingFirst, awaitingSecond>>
    /\ UNCHANGED <<engineVars, validateVars, trackerVars>>
    /\ noInsert

\* a failure path of onGenerate that drops the schema it had
GenerateResolves_clearsSchema(ok, fields, title) ==
    /\ genInFlight > 0
    /\ genInFlight' = genInFlight - 1
    /\ loading' = FALSE
    /\ schema' = IF ok THEN fields ELSE <<>>
    /\ formTitle' = IF ok THEN title ELSE ""
    /\ rstep' = IF ok THEN Quiet("generateDone")
                      ELSE RouteStep("generateFailed", "none", "none", 0, 1)
    /\ renders(ok, responseId)
    /\ UNCHANGED <<route, desc, saving, submitting, formId,
                   fetchInFlight, draftInFlight, saveInFlight,
                   awaitingFirst, awaitingSecond>>
    /\ UNCHANGED <<formData, errors, lastEvent, onSubmitCalls, validateVars>>
    /\ noInsert

\* Home.onGenerate resumes: generateSchema returned data (ok) or threw
GenerateResolves(ok, fields, title) ==
    /\ genInFlight > 0
    /\ genInFlight' = genInFlight - 1
    /\ loading' = FALSE
    /\ IF ok
       THEN /\ schema' = fields
            /\ formTitle' = title
            /\ rstep' = Quiet("generateDone")
            /\ renders(TRUE, responseId)
       ELSE /\ rstep' = RouteStep("generateFailed", "none", "none", 0, 1)
            /\ UNCHANGED <<schema, formTitle, trackerVars>>
    /\ UNCHANGED <<route, desc, saving, submitting, formId,
                   fetchInFlight, draftInFlight, saveInFlight,
                   awaitingFirst, awaitingSecond>>
    /\ UNCHANGED <<formData, errors, lastEvent, onSubmitCalls, validateVars>>
    /\ noInsert

\* Home.onSaveForm up to its first await; the Button exists with a schema
\* and is disabled by saving
SaveStart ==
    /\ route = "home"
    /\ mounted
    /\ ~saving
    /\ saving' = TRUE
    /\ saveInFlight' = saveInFlight + 1
    /\ rstep' = Quiet("saveStart")
    /\ UNCHANGED <<route, desc, loading, submitting, formId, formTitle,
                   fetchInFlight, draftInFlight, genInFlight,
                   awaitingFirst, awaitingSecond>>
    /\ UNCHANGED <<engineVars, validateVars, trackerVars>>
    /\ noInsert

\* Home.onSaveForm resumes: getUser and the insert succeeded (ok) or one threw
SaveResolves(ok) ==
    /\ saveInFlight > 0
    /\ saveInFlight' = saveInFlight - 1
    /\ saving' = FALSE
    /\ formId' = IF ok THEN "f1" ELSE formId
    /\ rstep' = IF ok THEN RouteStep("saveDone", "none", "none", 1, 0)
                      ELSE RouteStep("saveFailed", "none", "none", 0, 1)
    /\ UNCHANGED <<route, desc, loading, submitting, formTitle,
                   fetchInFlight, draftInFlight, genInFlight,
                   awaitingFirst, awaitingSecond>>
    /\ UNCHANGED <<engineVars, validateVars, trackerVars>>
    /\ noInsert

\* FormResponse.fetchForm resumes with the form (ok) or an error
FetchFormResolves(ok, fields, title) ==
    /\ fetchInFlight > 0
    /\ fetchInFlight' = fetchInFlight - 1
    /\ loading' = FALSE
    /\ IF ok
       THEN /\ schema' = fields
            /\ formTitle' = title
            /\ rstep' = Quiet("fetchDone")
            /\ renders(TRUE, responseId)
       ELSE /\ rstep' = RouteStep("fetchFailed", "none", "none", 0, 1)
            /\ UNCHANGED <<schema, formTitle, trackerVars>>
    /\ UNCHANGED <<route, desc, saving, submitting, formId,
                   draftInFlight, genInFlight, saveInFlight,
                   awaitingFirst, awaitingSecond>>
    /\ UNCHANGED <<formData, errors, lastEvent, onSubmitCalls, validateVars>>
    /\ noInsert

\* FormResponse.createDraftResponse resumes with the draft row (ok) or an error
DraftResolves(ok) ==
    /\ draftInFlight > 0
    /\ draftInFlight' = draftInFlight - 1
    /\ rstep' = Quiet(IF ok THEN "draftDone" ELSE "draftFailed")
    /\ IF ok THEN renders(mounted, "r1") ELSE UNCHANGED trackerVars
    /\ responseStatus' = IF ok THEN "draft" ELSE responseStatus
    /\ UNCHANGED pendingFirst
    /\ itemsInsert' = NoInsert
    /\ UNCHANGED <<route, desc, loading, saving, submitting, formId, formTitle,
                   fetchInFlight, genInFlight, saveInFlight,
                   awaitingFirst, awaitingSecond>>
    /\ UNCHANGED <<engineVars, validateVars>>

\* a change event of the rendered FormFactory
RouteChange(handled) ==
    /\ mounted
    /\ handled
    /\ rstep' = Quiet("change")
    /\ UNCHANGED <<routeStateVars, trackerVars>>
    /\ noInsert

\* the submit Button of the rendered FormFactory: the engine's handleSubmit
\* and, when it calls props.onSubmit, the route's callback up to its await
Submit ==
    /\ mounted
    /\ ~loadingProp
    /\ handleSubmit
    /\ UNCHANGED trackerVars
    /\ UNCHANGED <<route, desc, loading, saving, formId, formTitle,
                   fetchInFlight, draftInFlight, genInFlight, saveInFlight,
                   awaitingSecond>>
    /\ UNCHANGED responseStatus
    /\ itemsInsert' = NoInsert
    /\ IF onSubmitCalls' = <<>>
       THEN /\ rstep' = Quiet("submitRejected")
            /\ UNCHANGED <<submitting, awaitingFirst, pendingFirst>>
       ELSE IF route = "respond"
       THEN IF responseId = "null"
            THEN /\ rstep' = Quiet("submitIgnored")
                 /\ UNCHANGED <<submitting, awaitingFirst, pendingFirst>>
            ELSE /\ InFlightSubmissions < MaxInFlight
                 /\ submitting' = TRUE
                 /\ awaitingFirst' = awaitingFirst + 1
                 /\ pendingFirst' = pendingFirst (+)
                                      SetToBag({Submission(onSubmitCalls'[1], responseId)})
                 /\ rstep' = Quiet("submitStart")
       ELSE IF formId = "null"
            THEN /\ rstep' = Quiet("submitIgnored")
                 /\ UNCHANGED <<submitting, awaitingFirst, pendingFirst>>
            ELSE /\ InFlightSubmissions < MaxInFlight
                 /\ awaitingFirst' = awaitingFirst + 1
                 /\ pendingFirst' = pendingFirst (+)
                                      SetToBag({Submission(onSubmitCalls'[1], formId)})
                 /\ rstep' = Quiet("submitStart")
                 /\ UNCHANGED submitting

\* a failure of the first request that leaves the submitting flag set
FirstResolves_noFinally(ok) ==
    /\ awaitingFirst > 0
    /\ awaitingFirst' = awaitingFirst - 1
    /\ IF ok
       THEN /\ awaitingSecond' = awaitingSecond + 1
            /\ rstep' = RouteStep("firstDone", "ok", "none", 0, 0)
       ELSE /\ rstep' = RouteStep("submitFailed", "error", "none", 0, 1)
            /\ UNCHANGED awaitingSecond
    /\ UNCHANGED submitting
    /\ UNCHANGED <<route, desc, loading, saving, formId, formTitle,
                   fetchInFlight, draftInFlight, genInFlight, saveInFlight>>
    /\ UNCHANGED <<engineVars, validateVars, trackerVars>>
    /\ firstRequestDone(ok)

\* the first persistence request of a submission resolves (FormResponse: the
\* update to 'submitted'; Home: the insert of the response row)
FirstResolves(ok) ==
    /\ awaitingFirst > 0
    /\ awaitingFirst' = awaitingFirst - 1
    /\ IF ok
       THEN /\ awaitingSecond' = awaitingSecond + 1
            /\ rstep' = RouteStep("firstDone", "ok", "none", 0, 0)
            /\ UNCHANGED submitting
       ELSE /\ rstep' = RouteStep("submitFailed", "error", "none", 0, 1)
            /\ submitting' = IF route = "respond" THEN FALSE ELSE submitting
            /\ UNCHANGED awaitingSecond
    /\ UNCHANGED <<route, desc, loading, saving, formId, formTitle,
                   fetchInFlight, draftInFlight, genInFlight, saveInFlight>>
    /\ UNCHANGED <<engineVars, validateVars, trackerVars>>
    /\ firstRequestDone(ok)

\* a completion that reports success whatever the insert of the items returned
SecondResolves_ignoresItemsError(ok) ==
    /\ awaitingSecond > 0
    /\ awaitingSecond' = awaitingSecond - 1
    /\ rstep' = RouteStep("submitDone", "ok", IF ok THEN "ok" ELSE "error", 1, 0)
    /\ submitting' = IF route = "respond" THEN FALSE ELSE submitting
    /\ UNCHANGED <<route, desc, loading, saving, formId, formTitle,
                   fetchInFlight, draftInFlight, genInFlight, saveInFlight,
                   awaitingFirst>>
    /\ UNCHANGED <<engineVars, validateVars, trackerVars>>
    /\ noInsert

\* a completion whose reset step remounts the engine with empty maps
SecondResolves_resetsAnswers(ok) ==
    /\ awaitingSecond > 0
    /\ awaitingSecond' = awaitingSecond - 1
    /\ rstep' = IF ok THEN RouteStep("submitDone", "ok", "ok", 1, 0)
                      ELSE RouteStep("submitFailed", "ok", "error", 0, 1)
    /\ submitting' = IF route = "respond" THEN FALSE ELSE submitting
    /\ formData' = IF ok /\ route = "respond" THEN EmptyObject ELSE formData
    /\ errors' = IF ok /\ route = "respond" THEN EmptyObject ELSE errors
    /\ UNCHANGED <<route, desc, loading, saving, formId, formTitle,
                   fetchInFlight, draftInFlight, genInFlight, saveInFlight,
                   awaitingFirst>>
    /\ UNCHANGED <<schema, lastEvent, onSubmitCalls, validateVars, trackerVars>>
    /\ noInsert

\* the insert of the response items resolves; FormResponse then sets the
\* schema to a copy of itself
SecondResolves(ok) ==
    /\ awaitingSecond > 0
    /\ awaitingSecond' = awaitingSecond - 1
    /\ rstep' = IF ok THEN RouteStep("submitDone", "ok", "ok", 1, 0)
                      ELSE RouteStep("submitFailed", "ok", "error", 0, 1)
    /\ submitting' = IF route = "respond" THEN FALSE ELSE submitting
    /\ UNCHANGED <<route, desc, loading, saving, formId, formTitle,
                   fetchInFlight, draftInFlight, genInFlight, saveInFlight,
                   awaitingFirst>>
    /\ UNCHANGED <<engineVars, validateVars, trackerVars>>
    /\ noInsert

InitRoutes ==
    /\ route \in {"home", "respond"}
    /\ desc = ""
    /\ loading = (route = "respond")
    /\ saving = FALSE
    /\ submitting = FALSE
    /\ formId = "null"
    /\ formTitle = ""
    /\ fetchInFlight = (IF route = "respond" THEN 1 ELSE 0)
    /\ draftInFlight = (IF route = "respond" THEN 1 ELSE 0)
    /\ genInFlight = 0
    /\ saveInFlight = 0
    /\ awaitingFirst = 0
    /\ awaitingSecond = 0
    /\ rstep = Quiet("construct")
    /\ schema = <<>>
    /\ formData = EmptyObject
    /\ errors = EmptyObject
    /\ lastEvent = [op |-> "mount", key |-> "", value |-> Undefined]
    /\ onSubmitCalls = <<>>
    /\ vField = FormField("f", "text", "F", FALSE, NoValidation, <<>>)
    /\ vValue = Undefined
    /\ vResult = Pending
    /\ mounted = FALSE
    /\ responseId = "null"
    /\ sessionId = "null"
    /\ intervals = 0
    /\ timers = NoTimers
    /\ upsertInFlight = 0
    /\ livenessInFlight = 0
    /\ abandonInFlight = 0
    /\ upsertsIssued = 0
    /\ tstep = TrackerStep("mount", "none")
    /\ PersistIdle

NextRoutes ==
    \/ \E d \in Descriptions : SetDesc(d)
    \/ GenerateStart
    \/ \E ok \in BOOLEAN, fields \in RouteSchemas, title \in Titles :
          GenerateResolves(ok, fields, title)
    \/ SaveStart
    \/ \E ok \in BOOLEAN : SaveResolves(ok)
    \/ \E ok \in BOOLEAN, fields \in RouteSchemas, title \in Titles :
          FetchFormResolves(ok, fields, title)
    \/ \E ok \in BOOLEAN : DraftResolves(ok)
    \/ RouteChange(\E field \in SchemaFields : CheckboxToggle(field))
    \/ RouteChange(\E field \in SchemaFields : \E i \in 1..Len(field.options) :
                       ChoiceChange(field, field.options[i]))
    \/ Submit
    \/ \E ok \in BOOLEAN : FirstResolves(ok)
    \/ \E ok \in BOOLEAN : SecondResolves(ok)

SpecRoutes == InitRoutes /\ [][NextRoutes]_vars

(***************************************************************************)
(* SpecRespond: the respond route with the tracker of its FormFactory      *)
(* running: the steps of FormResponse interleaved with those of the        *)
(* tracking effect, for one response.                                      *)
(***************************************************************************)
InitRespond ==
    /\ InitRoutes
    /\ route = "respond"

NextRespond ==
    \/ \E ok \in BOOLEAN, fields \in RouteSchemas, title \in Titles :
          FetchFormResolves(ok, fields, title)
    \/ \E ok \in BOOLEAN : DraftResolves(ok)
    \/ RouteChange(\E field \in SchemaFields : CheckboxToggle(field))
    \/ RouteChange(\E field \in SchemaFields : \E i \in 1..Len(field.options) :
                       ChoiceChange(field, field.options[i]))
    \/ Submit
    \/ \E ok \in BOOLEAN : FirstResolves(ok)
    \/ \E ok \in BOOLEAN : SecondResolves(ok)
    \/ \E result \in {"error"} \cup SessionIds : TrackSessionResolves(result)
    \/ HeartbeatFires
    \/ LivenessResolves
    \/ \E viaRef \in BOOLEAN : TimeoutFires(viaRef)
    \/ AbandonResolves
    \/ Unmount

SpecRespond == InitRespond /\ [][NextRespond]_vars

(***************************************************************************)
(* The validator's contract as the specification words it (section 4.2):   *)
(* which rule a value violates, and the first violated rule in the fixed   *)
(* order.  The claims about validateField are stated against these.        *)
(***************************************************************************)
\* absent, or a string that is empty or whitespace-only
IsBlank(value) ==
    \/ value.t = "undefined"
    \/ (value.t = "string" /\ trim(value.s) = <<>>)

Violates(field, value, rule) ==
    LET validation == field.validation IN
    CASE rule = "required"  -> field.required /\ IsBlank(value)
      [] rule = "minLength" -> /\ validation.present /\ validation.dminLength
                               /\ value.t = "string"
                               /\ Len(value.s) < validation.minLength
      [] rule = "maxLength" -> /\ validation.present /\ validation.dmaxLength
                               /\ value.t = "string"
                               /\ Len(value.s) > validation.maxLength
      [] rule = "min"       -> /\ validation.present /\ validation.dmin
                               /\ value.t = "number"
                               /\ value.n < validation.min
      [] rule = "max"       -> /\ validation.present /\ validation.dmax
                               /\ value.t = "number"
                               /\ value.n > validation.max
      [] rule = "pattern"   -> /\ validation.present /\ validation.dpattern
                               /\ value.t = "string"
                               /\ ~RegExpTest(validation.pattern, value.s)

RuleOrder == <<"required", "minLength", "maxLength", "min", "max", "pattern">>

Threshold(field, rule) ==
    CASE rule = "minLength" -> field.validation.minLength
      [] rule = "maxLength" -> field.validation.maxLength
      [] rule = "min"       -> field.validation.min
      [] rule = "max"       -> field.validation.max
      [] OTHER              -> 0

\* no rule before position i of RuleOrder is violated
NoneBefore(field, value, i) ==
    \A j \in 1..(i - 1) : ~Violates(field, value, RuleOrder[j])

\* the message of the first violated rule, null when none is violated
FirstViolated(field, value) ==
    IF \E i \in 1..Len(RuleOrder) : Violates(field, value, RuleOrder[i])
    THEN LET i == CHOOSE i \in 1..Len(RuleOrder) :
                      /\ Violates(field, value, RuleOrder[i])
                      /\ NoneBefore(field, value, i)
         IN Message(field.label, RuleOrder[i], Threshold(field, RuleOrder[i]))
    ELSE null

Validated == vResult # Pending

\* C3: for a required field, validateField returns the required-field error
\* exactly when the value is absent or a blank string; any other value that
\* violates no other declared constraint gets no error.
C3_RequiredErrorExactlyWhenBlank ==
    (Validated /\ vField.required) =>
        /\ (vResult = Message(vField.label, "required", 0)) <=> IsBlank(vValue)
        /\ (/\ ~IsBlank(vValue)
            /\ \A i \in 2..Len(RuleOrder) : ~Violates(vField, vValue, RuleOrder[i]))
           => vResult = null

\* C4: for an optional field, whatever constraints it declares, validateField
\* applied to an absent value returns no error.
C4_OptionalAbsentNoError ==
    (Validated /\ ~vField.required /\ vValue = Undefined) => vResult = null

C4_Witness ==
    /\ Validated
    /\ ~vField.required
    /\ vValue = Undefined
    /\ vField.validation.dmin /\ vField.validation.min > 0
    /\ vField.validation.dmax
    /\ vField.validation.dminLength /\ vField.validation.minLength > 0
    /\ vField.validation.dmaxLength
    /\ vField.validation.dpattern
    /\ vResult = null

\* C6: validateField returns the message of the first rule, in the order
\* required, minLength, maxLength, min, max, pattern, that the value violates,
\* and no error when the value violates none.
C6_FirstViolatedRuleWins ==
    Validated => vResult = FirstViolated(vField, vValue)

\* C7: a number below a declared min gets the below-minimum error and a number
\* above a declared max the above-maximum error, for every integer bound, zero
\* and negative included; a string whose length is outside a declared
\* minLength/maxLength gets the corresponding length error.  (Each case is
\* taken where no earlier rule of the order is violated.)
C7_BoundsEnforced ==
    Validated =>
        \A i \in 2..5 :
            (Violates(vField, vValue, RuleOrder[i]) /\ NoneBefore(vField, vValue, i))
            => vResult = Message(vField.label, RuleOrder[i], Threshold(vField, RuleOrder[i]))

(***************************************************************************)
(* Claims about the mounted engine (Spec).                                 *)
(***************************************************************************)
Submitted == lastEvent.op = "submit"

Changed == lastEvent.op = "change"

\* the fields of the schema whose current answer validateField rejects
FailingFields ==
    {f \in SchemaFields : validateField(f, Get(formData, f.key)) # null}

\* a message is displayed for key: `errors[field.key] && <p>...`
ErrorShown(errs, key) == GetError(errs, key) # EmptyMessage

\* the field of the current schema with this key
FieldsWithKey(key) == {f \in SchemaFields : f.key = key}

\* C1: on every submit attempt onSubmit is invoked if and only if no field of
\* the schema fails validation against the current AnswerMap; when invoked it
\* is invoked exactly once, with the current AnswerMap unchanged, and when any
\* field fails it is not invoked at all.
C1_SubmitIffAllValid ==
    Submitted =>
        IF FailingFields = {}
        THEN onSubmitCalls = <<formData>>
        ELSE onSubmitCalls = <<>>

C1_WitnessInvoked ==
    /\ Submitted
    /\ Len(schema) > 1
    /\ FailingFields = {}
    /\ onSubmitCalls = <<formData>>
    /\ \A f \in SchemaFields : f.key \in DOMAIN formData

\* C2: after a submit attempt the ErrorMap holds an entry for exactly those
\* schema fields whose current value fails validation, each with that field's
\* message, and nothing else: every field is checked, also after the first
\* failure, and no entry of an earlier attempt survives.
C2_ErrorsFullyRecomputed ==
    Submitted =>
        /\ DOMAIN errors = {f.key : f \in FailingFields}
        /\ \A f \in FailingFields :
               errors[f.key] = validateField(f, Get(formData, f.key))

C2_WitnessSeveralFail ==
    /\ Submitted
    /\ Cardinality(FailingFields) >= 2
    /\ \E f \in SchemaFields : f \notin FailingFields /\ f.key \in DOMAIN formData
    /\ \E i \in 2..Len(schema) : schema[i] \in FailingFields /\ schema[1] \in FailingFields

\* C5: every value-change event for a key leaves no message shown for that
\* key, whether or not the new value is valid and whether or not an error
\* existed, and leaves the entries of all other keys as they were; a message
\* for a key appears only through a submit attempt.
C5_ChangeClearsOnlyItsKey ==
    [][/\ (lastEvent'.op = "change") =>
            /\ ~ErrorShown(errors', lastEvent'.key)
            /\ \A k \in (DOMAIN errors \cup DOMAIN errors') \ {lastEvent'.key} :
                   /\ k \in DOMAIN errors
                   /\ k \in DOMAIN errors'
                   /\ errors'[k] = errors[k]
       /\ \A k \in DOMAIN errors' :
              (ErrorShown(errors', k) /\ ~ErrorShown(errors, k))
              => lastEvent'.op = "submit"
      ]_vars

C5_WitnessClearedStillInvalid ==
    /\ Changed
    /\ lastEvent.key \in DOMAIN errors
    /\ errors[lastEvent.key] = EmptyMessage
    /\ \E f \in FailingFields : f.key = lastEvent.key
    /\ \E k \in DOMAIN errors : k # lastEvent.key /\ ErrorShown(errors, k)

\* C8: when a text-like control emits a change carrying the string s, the
\* AnswerMap entry of its key becomes exactly s, the empty string included; so
\* a required text-like field whose entry is not a non-blank string (never
\* typed into, or typed into and cleared) fails the required check at submit.
C8_TextChangeStoresString ==
    /\ (Changed /\ \E f \in FieldsWithKey(lastEvent.key) : f.type \in TextLikeTypes)
       => Get(formData, lastEvent.key) = lastEvent.value
    /\ Submitted =>
         \A f \in SchemaFields :
             (/\ f.type \in TextLikeTypes
              /\ f.required
              /\ ~(Get(formData, f.key).t = "string" /\ ~IsBlank(Get(formData, f.key))))
             => GetError(errors, f.key) = Message(f.label, "required", 0)

\* the numbers a respondent can have entered so that the control shows `chars`
EnteredNumbers(chars) == {i \in -MaxNum..MaxNum : NumStr(i) = chars}

\* C9: a number control stores a number in the AnswerMap, so that on submit a
\* number field with validation.min = m whose entered value is below m gets
\* the below-minimum error and the submission callback is not invoked.
C9_NumberStoredAndBounded ==
    /\ (Changed /\ \E f \in FieldsWithKey(lastEvent.key) : f.type = "number")
       => (lastEvent.value # Str(<<>>) => Get(formData, lastEvent.key).t = "number")
    /\ Submitted =>
         \A f \in SchemaFields :
             (/\ f.type = "number"
              /\ f.validation.present /\ f.validation.dmin
              /\ f.key \in DOMAIN formData
              /\ \E i \in EnteredNumbers(formData[f.key].s) : i < f.validation.min)
             => /\ GetError(errors, f.key) = Message(f.label, "min", f.validation.min)
                /\ onSubmitCalls = <<>>

\* the schema fields whose AnswerMap entry is defined and not the empty string
AnsweredFields ==
    {f \in SchemaFields :
        Get(formData, f.key) # Undefined /\ Get(formData, f.key) # Str(<<>>)}

\* C10: in every reachable state progress equals 100 * (answered schema
\* fields) / (schema fields), is 0 for a schema with no fields, and lies
\* between 0 and 100.
C10_ProgressIsAnsweredShare ==
    /\ Len(schema) = 0 => progress.num = 0
    /\ Len(schema) > 0 =>
           progress.num * Len(schema) = 100 * Cardinality(AnsweredFields) * progress.den
    /\ 0 <= progress.num
    /\ progress.num <= 100 * progress.den

\* no value occurs twice in items
NoDuplicates(items) == \A i, j \in 1..Len(items) : i # j => items[i] # items[j]

\* items without x, the others in their order
Without(items, x) == SelectSeq(items, LAMBDA v : v # x)

\* C11: every toggle of a multiselect option leaves an array without
\* duplicates that holds exactly the checked options: switching an option on
\* appends it after the values already there, switching it off removes it and
\* keeps the remaining values in their order (a on, b on, a off yields [b]).
C11_ToggleKeepsOrderNoDuplicates ==
    [][(/\ lastEvent'.op = "change"
        /\ \E f \in FieldsWithKey(lastEvent'.key) : f.type = "multiselect")
       => \E f \in FieldsWithKey(lastEvent'.key) :
            LET old == selectedValues(f)
                new == Get(formData', f.key)
            IN /\ new.t = "array"
               /\ NoDuplicates(new.s)
               /\ \E i \in 1..Len(f.options) :
                    IF lastEvent'.value = Bool(TRUE)
                    THEN ~includes(old, f.options[i]) /\ new.s = Append(old, f.options[i])
                    ELSE includes(old, f.options[i]) /\ new.s = Without(old, f.options[i])
      ]_vars

C11_WitnessOnOnOff ==
    /\ Changed
    /\ lastEvent.key = "tags"
    /\ lastEvent.value = Bool(FALSE)
    /\ Get(formData, "tags") = Arr(<<"b">>)

(***************************************************************************)
(* The session liveness tracker                                            *)
(***************************************************************************)
\* steps of the tracker, as opposed to events handled by the engine
TrackerOps == {"sessionResolved", "sessionStored", "heartbeat", "livenessResolved",
               "timeout", "abandonResolved", "unmount"}

\* C12: once FormFactory is unmounted no interval and no inactivity timeout of
\* the session is pending or gets armed, and no step issues a write, whatever
\* request was still in flight at teardown.
C12_NothingAfterTeardown ==
    ~mounted => /\ intervals = 0
                /\ timers.pending = 0
                /\ tstep.write = "none"

\* C14: at most one inactivity timeout is armed at any time; when it fires it
\* issues exactly one abandoned-mark write for the response and is gone
\* afterwards: its own firing arms nothing.
C14_FiringWritesOnceAndDoesNotRearm ==
    [][ /\ timers.pending <= 1
        /\ tstep'.op = "timeout" =>
              /\ tstep'.write = "abandoned"
              /\ abandonInFlight' = abandonInFlight + 1
              /\ timers'.pending = timers.pending - 1
              /\ ~timers'.refPending ]_vars

C14_WitnessFired ==
    /\ mounted
    /\ tstep = TrackerStep("timeout", "abandoned")
    /\ timers.pending = 0
    /\ abandonInFlight = 1

\* C15: every firing of the heartbeat of a mounted FormFactory writes a
\* liveness update, whether or not a session identifier has been stored.
C15_HeartbeatAlwaysWrites ==
    tstep.op = "heartbeat" => tstep.write = "liveness"

\* C19: a step of the tracker, failed or not, leaves the AnswerMap and the
\* ErrorMap as they were, and in every state of a mounted FormFactory a
\* submit event can be processed.
C19_TrackerLeavesEngineAlone ==
    [][ /\ tstep'.op \in TrackerOps => UNCHANGED <<formData, errors>>
        /\ mounted => ENABLED EngineEvent(handleSubmit) ]_vars

C19_WitnessFailedUpsertAfterAnswers ==
    /\ mounted
    /\ tstep = TrackerStep("sessionResolved", "none")
    /\ sessionId = "null"
    /\ formData # EmptyObject
    /\ errors # EmptyObject

\* C20: the session create-or-update request is issued exactly once for one
\* mounted FormFactory; storing the returned identifier issues no further one.
C20_UpsertIssuedOnce ==
    /\ upsertsIssued = 1
    /\ tstep.op = "sessionStored" => tstep.write = "none"

(***************************************************************************)
(* The routes: requests in flight, flags and notifications                 *)
(***************************************************************************)
\* C13: at most one submission of a FormFactory is in flight, and while one
\* is in flight the submit control is disabled, on the respond route and on
\* the preview of the home route alike.
C13_OneSubmissionInFlight ==
    /\ InFlightSubmissions <= 1
    /\ InFlightSubmissions = 1 => loadingProp

\* C16: a flag that disables a control is set exactly while the request of
\* its action is in flight: loading for generate, saving for save, submitting
\* for the respond route's submission; it is false again once the request
\* has resolved, whatever the outcome.
C16_FlagSetOnlyWhileInFlight ==
    /\ route = "home" => (loading <=> genInFlight > 0)
    /\ saving <=> saveInFlight > 0
    /\ submitting <=> (route = "respond" /\ InFlightSubmissions > 0)

C16_WitnessReenabledAfterFailure ==
    /\ route = "respond"
    /\ rstep.op = "submitFailed"
    /\ ~submitting
    /\ mounted

\* C17: a step that ends a submission shows the success notification exactly
\* when both persistence requests succeeded; when one failed it shows no
\* success notification and exactly one error notification; the step between
\* the two requests shows nothing.
C17_SuccessOnlyAfterBothPersisted ==
    /\ rstep.op \in {"submitDone", "submitFailed"} =>
          /\ rstep.success = 1 <=> (rstep.first = "ok" /\ rstep.second = "ok")
          /\ (rstep.first = "error" \/ rstep.second = "error") =>
                (rstep.success = 0 /\ rstep.error = 1)
          /\ rstep.success + rstep.error = 1
    /\ rstep.op = "firstDone" => (rstep.success = 0 /\ rstep.error = 0)

C17_WitnessItemsInsertFailed ==
    /\ rstep.op = "submitFailed"
    /\ rstep.first = "ok"
    /\ rstep.second = "error"
    /\ rstep.error = 1

\* C18: the step in which generateSchema throws shows one error notification
\* and no other, leaves the schema and the form title as they were, and ends
\* with the generate control enabled again.
C18_FailedGenerationKeepsState ==
    [][ rstep'.op = "generateFailed" =>
           /\ rstep'.error = 1
           /\ rstep'.success = 0
           /\ UNCHANGED <<schema, formTitle, mounted>>
           /\ ~loading' ]_vars

C18_WitnessFailedWithPriorSchema ==
    /\ rstep.op = "generateFailed"
    /\ mounted
    /\ schema \in RouteSchemas
    /\ formTitle \in Titles
    /\ ~loading

(***************************************************************************)
(* What a submission persists                                              *)
(***************************************************************************)
SubmitOps == {"submitStart", "submitRejected", "submitIgnored"}

\* C22: on the respond route a submit that passed validation is never
\* dropped without a notification: the callback either starts its requests
\* or its step shows one notification, and a step that ends a submission
\* shows exactly one.
C22_ValidSubmitHasOneOutcome ==
    route = "respond" =>
        /\ rstep.op = "submitIgnored" => rstep.success + rstep.error = 1
        /\ rstep.op \in {"submitDone", "submitFailed"} =>
              rstep.success + rstep.error = 1

\* C23: the insert of response items a submission issues carries one row per
\* key of the AnswerMap that submission was given, and every row names the
\* response record of that submission.
C23_ItemsNameTheirResponse ==
    [][ rstep'.op = "firstDone" =>
           \E s \in BagToSet(pendingFirst) :
               /\ pendingFirst' = pendingFirst (-) SetToBag({s})
               /\ {it.field_key : it \in itemsInsert'.items} = DOMAIN s.data
               /\ Cardinality(itemsInsert'.items) = Cardinality(DOMAIN s.data)
               /\ \A it \in itemsInsert'.items :
                     it.response_id = itemsInsert'.record ]_vars

C21_NoAbandonAfterSubmitted ==
    [][ responseStatus = "submitted" => abandonInFlight' <= abandonInFlight ]_vars

====
